---- MODULE Spec2Model ----
\* Deal radar (scanner.py): RSS poll loop with a SQLite "seen" table used as a
\* dedupe gate, a keyword filter, per-category price bands and a notification
\* (print + optional email) for listings at or below the category's max_buy.
\*
\* Strings that the program inspects (titles, summaries) are sequences of
\* tokens; a token is a word or a number.  Optional values (price, published)
\* are sequences of length 0 (None) or 1.
EXTENDS Integers, Sequences, FiniteSets, TLC

\* ---------------------------------------------------------------- bounds
MaxNow == 1
MaxEntries == 1
CountCap == 2
MaxPrice == 11
MaxBuyRange == 9
MaxBuyCents == 250
MaxTextLen == 2
MaxDay == 1

\* ------------------------------------------------------- program constants
EntriesCap == 50
BandMaxBuy == 80
BandList == 90
BandAccept == 70
BandFloor == 60

\* ------------------------------------------------------------ text model
W(s) == [k |-> "w", s |-> s, n |-> 0]
N(n) == [k |-> "n", s |-> "", n |-> n]

None == <<>>
Some(x) == <<x>>

\* str.lower() on the words that occur in the model
Lower(s) == CASE s = "Stool" -> "stool"
              [] s = "L1" -> "l1"
              [] OTHER -> s

\* ------------------------------------------------------- user settings
\* FEEDS, KEYWORDS, PRICE_BANDS and FEED_CATEGORY are empty as shipped (main
\* then returns at once); the settings below have the shape the comments of
\* the file give: two feeds, one with keywords, one mapped to "bar_stools".
Procs == {"p1", "p2"}

FEEDS == <<"f1", "f2">>

KEYWORDS(feed_url) == IF feed_url = "f2" THEN <<"Stool">> ELSE <<>>

FEED_CATEGORY(feed_url) == IF feed_url = "f1" THEN "bar_stools" ELSE ""

PRICE_BANDS(cat) ==
    IF cat = "bar_stools"
    THEN Some(<<BandMaxBuy, BandList, BandAccept, BandFloor>>)
    ELSE None

\* ------------------------------------------------------------ feed input
\* feedparser entries (dicts); a missing key is the empty text / None
Entry(title, link, summary, published) ==
    [title |-> title, link |-> link, summary |-> summary, description |-> <<>>,
     published |-> published, updated |-> None]

E1 == Entry(<<W("Stool"), N(50)>>, "L1", <<>>, Some("d1"))
E2 == Entry(<<W("stool")>>, "", <<N(100)>>, None)
E3 == Entry(<<>>, "", <<N(5)>>, None)
E4 == Entry(<<W("chair")>>, "L1", <<>>, Some("d2"))

Entries == {E1, E2, E3, E4}

\* what a poll of each feed may return
FeedEntries(feed_url) == IF feed_url = "f1" THEN {E2, E3, E4} ELSE {E1, E4}

RECURSIVE SeqsUpTo(_, _)
SeqsUpTo(S, n) ==
    IF n = 0 THEN {<<>>}
    ELSE LET shorter == SeqsUpTo(S, n - 1)
         IN  shorter \cup {Append(q, x) : q \in {r \in shorter : Len(r) = n - 1}, x \in S}

FeedResults(feed_url) == SeqsUpTo(FeedEntries(feed_url), MaxEntries)

\* ---------------------------------------------------------------- helpers
\* _PRICE_RE.search + float(group 1): the first number in the text
RECURSIVE parse_price(_)
parse_price(text) ==
    IF text = <<>> THEN None
    ELSE IF Head(text).k = "n" THEN Some(Head(text).n)
    ELSE parse_price(Tail(text))

\* Python's `a or b` on Optional[float]: None and 0.0 are both falsy
OrPrice(a, b) == IF a # None /\ a[1] # 0 THEN a ELSE b

OrOpt(a, b) == IF a # None THEN a ELSE b

OrText(a, b) == IF a # <<>> THEN a ELSE b

extract_listing(feed_url, entry) ==
    LET title == entry.title
        link == entry.link
        published == OrOpt(entry.published, entry.updated)
        summary == OrText(entry.summary, entry.description)
        price == OrPrice(parse_price(title), parse_price(summary))
    IN  [feed_url |-> feed_url, title |-> title, link |-> link,
         price |-> price, published |-> published]

\* the words of normalize(f"{title} {link}")
HayWords(listing) ==
    {Lower(listing.title[i].s) : i \in {j \in DOMAIN listing.title : listing.title[j].k = "w"}}
        \cup (IF listing.link = "" THEN {} ELSE {Lower(listing.link)})

\* variant: the keyword list of the feed is ignored
matches_keywords_all(listing) == TRUE

matches_keywords(listing) ==
    LET kws == KEYWORDS(listing.feed_url)
    IN  IF kws = <<>> THEN TRUE
        ELSE \E i \in DOMAIN kws : Lower(kws[i]) \in HayWords(listing)

\* sha256(link or title)[:24]: a digest of the one text it is given
listing_id(listing) ==
    IF listing.link # ""
    THEN [sha |-> <<W(listing.link)>>]
    ELSE [sha |-> listing.title]

\* variant: a feed without category falls back to the bar_stools bands
get_bands_default(listing) ==
    LET cat == FEED_CATEGORY(listing.feed_url)
    IN  IF cat = "" THEN PRICE_BANDS("bar_stools") ELSE PRICE_BANDS(cat)

get_bands_for_listing(listing) ==
    LET cat == FEED_CATEGORY(listing.feed_url)
    IN  IF cat = "" THEN None ELSE PRICE_BANDS(cat)

\* variant: strict comparison at the band edge
is_mispriced_strict(listing, max_buy) ==
    IF listing.price = None THEN TRUE
    ELSE listing.price[1] < max_buy

is_mispriced(listing, max_buy) ==
    IF listing.price = None THEN TRUE
    ELSE listing.price[1] <= max_buy


\* ---------------------------------------------------------- SQLite storage
\* a row of table seen (id is the PRIMARY KEY)
SeenRow(lid, first_seen, listing) ==
    [id |-> lid, first_seen |-> first_seen, feed_url |-> listing.feed_url,
     title |-> listing.title, link |-> listing.link, price |-> listing.price,
     published |-> listing.published]

\* variant: the lookup never finds the row
is_seen_blind(rows, lid) == FALSE

\* SELECT 1 FROM seen WHERE id = ? on the rows a connection can read
is_seen(rows, lid) == \E r \in rows : r.id = lid

\* variant: INSERT OR REPLACE
insert_or_replace(rows, row) == {r \in rows : r.id # row.id} \cup {row}

\* INSERT OR IGNORE INTO seen ...: a row whose id is present is left alone
insert_or_ignore(rows, row) ==
    IF \E r \in rows : r.id = row.id THEN rows ELSE rows \cup {row}

\* variant: the INSERT is never committed
mark_seen_lost(rows, lid, listing, first_seen) == rows

\* variant: besides the listing's row, a per-feed record is written
mark_seen_learn(rows, lid, listing, first_seen) ==
    insert_or_ignore(rows, SeenRow(lid, first_seen, listing))
        \cup {SeenRow([sha |-> <<W(listing.feed_url)>>], first_seen, listing)}

\* mark_seen's INSERT on the rows the connection can read
mark_seen(rows, lid, listing, first_seen) ==
    insert_or_ignore(rows, SeenRow(lid, first_seen, listing))

\* ------------------------------------------------------------------ state
VARIABLES
    running,    \* the poller processes started against DB_PATH
    schema,     \* the tables of the database
    now,        \* coarse UTC clock
    seen,       \* committed rows of table seen
    txn,        \* per connection: rows of its open, uncommitted transaction
    conn,       \* per connection: its transaction and the file lock it holds
    pc,         \* per process: position in main()
    feedIdx,    \* per process: index into FEEDS of the feed being polled
    feed,       \* per process: entries of d.entries[:50] still to visit
    cur,        \* per process: the listing between is_seen and the packet
    failed,     \* per process: feeds whose poll raised this cycle
    count,      \* history: times a process admitted / gated / notified an id
    gate_in,    \* input of a stand-alone is_mispriced evaluation
    gate_out,   \* its result, <<>> before the call
    call_in,    \* argument of a stand-alone call of another pure function
    call_out    \* its result, <<>> before the call

vars == <<running, schema, now, seen, txn, conn, pc, feedIdx, feed, cur,
          failed, count, gate_in, gate_out, call_in, call_out>>

storeVars == <<schema, seen, txn, conn>>
histVars == <<count>>
gateVars == <<gate_in, gate_out, call_in, call_out>>

Kinds == {"admit", "gate", "notify"}

Listings == {extract_listing(FEEDS[i], e) : i \in DOMAIN FEEDS, e \in Entries}
Lids == {listing_id(l) : l \in Listings}

NoListing == extract_listing("", Entry(<<>>, "", <<>>, None))

\* init_db: CREATE TABLE IF NOT EXISTS seen
init_db == {"seen"}

InitWith(procs) ==
    /\ running = procs
    /\ schema = init_db
    /\ now = 0
    /\ seen = {}
    /\ txn = [p \in Procs |-> {}]
    /\ conn = [p \in Procs |-> "auto"]
    /\ pc = [p \in Procs |-> "poll"]
    /\ feedIdx = [p \in Procs |-> 1]
    /\ feed = [p \in Procs |-> <<>>]
    /\ cur = [p \in Procs |-> NoListing]
    /\ failed = [p \in Procs |-> {}]
    /\ count = [x \in Procs \X Kinds \X Lids |-> 0]

GateInputs ==
    [price : {None} \cup {Some(n) : n \in 0 .. MaxPrice}, max_buy : 0 .. MaxBuyRange]

NoGateCall ==
    /\ gate_in = [price |-> None, max_buy |-> 0]
    /\ gate_out = <<>>

NoCall ==
    /\ call_in = <<>>
    /\ call_out = <<>>

Init == InitWith(Procs) /\ NoGateCall /\ NoCall

InitSingle == InitWith({"p1"}) /\ NoGateCall /\ NoCall

InitGate ==
    /\ InitWith({})
    /\ gate_in \in GateInputs
    /\ gate_out = <<>>
    /\ NoCall

\* ------------------------------------------------------------- main loop
\* `for feed_url in FEEDS` after feed i is done: the next feed, or the sleep
NextFeed(i) ==
    IF i < Len(FEEDS) THEN [pc |-> "poll", idx |-> i + 1]
    ELSE [pc |-> "sleep", idx |-> i]

\* variant: the try/except wraps the whole for loop
ExceptOutsideLoop(i) == [pc |-> "sleep", idx |-> i]

\* try/except inside the for loop: log the exception, go on with the next feed
ExceptHandler(i) == NextFeed(i)

\* `continue` in `for entry in d.entries[:50]` with `rest` still to visit
Continue(p, rest) ==
    /\ feed' = [feed EXCEPT ![p] = rest]
    /\ cur' = [cur EXCEPT ![p] = NoListing]
    /\ IF rest # <<>>
       THEN /\ pc' = [pc EXCEPT ![p] = "entry"]
            /\ UNCHANGED feedIdx
       ELSE /\ pc' = [pc EXCEPT ![p] = NextFeed(feedIdx[p]).pc]
            /\ feedIdx' = [feedIdx EXCEPT ![p] = NextFeed(feedIdx[p]).idx]

\* an exception reaches `except Exception` while feed FEEDS[feedIdx[p]] is polled
Raise(p) ==
    /\ feed' = [feed EXCEPT ![p] = <<>>]
    /\ cur' = [cur EXCEPT ![p] = NoListing]
    /\ pc' = [pc EXCEPT ![p] = ExceptHandler(feedIdx[p]).pc]
    /\ feedIdx' = [feedIdx EXCEPT ![p] = ExceptHandler(feedIdx[p]).idx]
    /\ failed' = [failed EXCEPT ![p] = @ \cup {FEEDS[feedIdx[p]]}]

Bump(p, kind, lid) == [count EXCEPT ![<<p, kind, lid>>] = @ + 1]

\* d.entries[:50]
FirstEntries(entries) ==
    SubSeq(entries, 1, IF Len(entries) < EntriesCap THEN Len(entries) ELSE EntriesCap)

\* d = feedparser.parse(feed_url) returns
Poll(p) ==
    /\ p \in running
    /\ pc[p] = "poll"
    /\ \E entries \in FeedResults(FEEDS[feedIdx[p]]) :
          Continue(p, FirstEntries(entries))
    /\ UNCHANGED <<running, now, storeVars, failed, histVars, gateVars>>

\* feedparser.parse(feed_url) raises
PollFail(p) ==
    /\ p \in running
    /\ pc[p] = "poll"
    /\ Raise(p)
    /\ UNCHANGED <<running, now, storeVars, histVars, gateVars>>

\* the entry passes the filters of lines 299-303 and so reaches the dedupe gate
ReachesGate(listing) ==
    /\ ~(listing.title = <<>> /\ listing.link = "")
    /\ matches_keywords(listing)

\* The states of a connection (sqlite3's implicit transactions, journal mode
\* delete): "auto" no transaction; "begun" BEGIN was issued by a failed INSERT,
\* no lock; "shared" a SELECT ran inside the open transaction and its read
\* lock stays; "reserved" the INSERT is done, not committed; "pending" the
\* commit failed, the write lock stays and new readers are shut out.
\* a SELECT cannot get its read lock
ReadBlocked(p) ==
    /\ conn[p] \in {"auto", "begun"}
    /\ \E q \in Procs \ {p} : conn[q] = "pending"

\* an INSERT cannot get the write lock
WriteBlocked(p) == \E q \in Procs \ {p} : conn[q] \in {"reserved", "pending"}

\* a commit cannot get the exclusive lock
CommitBlocked(p) == \E q \in Procs \ {p} : conn[q] = "shared"

\* variant: mark_seen is called after send_email
BodyOrderLate(after) ==
    CASE after = "is_seen" -> "body"
      [] after = "send_email" -> "mark"
      [] after = "mark_seen" -> "continue"

\* the order of the statements of the loop body, lines 306-327: mark_seen
\* right after is_seen, then bands, gate, packet and send_email
BodyOrder(after) ==
    CASE after = "is_seen" -> "mark"
      [] after = "mark_seen" -> "body"
      [] after = "send_email" -> "continue"

\* go on in the loop body at `target`
Goto(p, target) ==
    IF target = "continue"
    THEN Continue(p, feed[p])
    ELSE /\ pc' = [pc EXCEPT ![p] = target]
         /\ UNCHANGED <<feed, cur, feedIdx>>

\* lines 297-307: extract, filter, is_seen
EntryStep(p) ==
    /\ p \in running
    /\ pc[p] = "entry"
    /\ LET listing == extract_listing(FEEDS[feedIdx[p]], Head(feed[p]))
           rest == Tail(feed[p])
           lid == listing_id(listing)
           rows == seen \cup txn[p]
       IN  /\ ReachesGate(listing) => ~ReadBlocked(p)
           /\ pc' = [pc EXCEPT ![p] = IF ~ReachesGate(listing) THEN "filtered"
                                      ELSE IF is_seen(rows, lid) THEN "dup"
                                      ELSE BodyOrder("is_seen")]
           /\ conn' = [conn EXCEPT ![p] =
                          IF ReachesGate(listing) /\ @ = "begun" THEN "shared" ELSE @]
           /\ cur' = [cur EXCEPT ![p] = listing]
           /\ feed' = [feed EXCEPT ![p] = rest]
           /\ UNCHANGED feedIdx
    /\ UNCHANGED <<running, schema, now, seen, txn, failed, histVars, gateVars>>

\* lines 300, 303 and 307: `continue` after a filter dropped the entry
\* ("filtered") or is_seen returned True ("dup")
Skip(p) ==
    /\ p \in running
    /\ pc[p] \in {"filtered", "dup"}
    /\ Continue(p, feed[p])
    /\ UNCHANGED <<running, now, storeVars, failed, histVars, gateVars>>

\* is_seen raises (the store is unavailable)
EntryFail(p) ==
    /\ p \in running
    /\ pc[p] = "entry"
    /\ ReachesGate(extract_listing(FEEDS[feedIdx[p]], Head(feed[p])))
    /\ Raise(p)
    /\ UNCHANGED <<running, now, storeVars, histVars, gateVars>>

\* line 164: the INSERT OR IGNORE of mark_seen runs; the connection holds the
\* write lock with the row uncommitted
Insert(p) ==
    /\ p \in running
    /\ pc[p] = "mark"
    /\ ~WriteBlocked(p)
    /\ txn' = [txn EXCEPT ![p] =
                  mark_seen(seen \cup txn[p], listing_id(cur[p]), cur[p], now) \ seen]
    /\ conn' = [conn EXCEPT ![p] = IF @ = "pending" THEN @ ELSE "reserved"]
    /\ pc' = [pc EXCEPT ![p] = "commit"]
    /\ UNCHANGED <<running, schema, now, seen, feedIdx, feed, cur, failed,
                   histVars, gateVars>>

\* variant: the exception of mark_seen is swallowed and the listing goes on
OnMarkErrorFailOpen(p) ==
    /\ pc' = [pc EXCEPT ![p] = "body"]
    /\ UNCHANGED <<feed, cur, feedIdx, failed, count>>

\* mark_seen raised: the exception leaves the loop body, nothing was admitted
OnMarkError(p) ==
    /\ Raise(p)
    /\ UNCHANGED count

\* line 164 raises "database is locked": another connection holds the write
\* lock.  The implicit BEGIN stays open.
InsertFail(p) ==
    /\ p \in running
    /\ pc[p] = "mark"
    /\ WriteBlocked(p)
    /\ conn' = [conn EXCEPT ![p] = IF @ = "auto" THEN "begun" ELSE @]
    /\ OnMarkError(p)
    /\ UNCHANGED <<running, schema, now, seen, txn, gateVars>>

\* line 171: conn.commit() publishes the row and releases the locks;
\* mark_seen returns
Commit(p) ==
    /\ p \in running
    /\ pc[p] = "commit"
    /\ ~CommitBlocked(p)
    /\ count[<<p, "admit", listing_id(cur[p])>>] < CountCap
    /\ seen' = seen \cup txn[p]
    /\ txn' = [txn EXCEPT ![p] = {}]
    /\ conn' = [conn EXCEPT ![p] = "auto"]
    /\ count' = Bump(p, "admit", listing_id(cur[p]))
    /\ Goto(p, BodyOrder("mark_seen"))
    /\ UNCHANGED <<running, schema, now, failed, gateVars>>

\* line 171 raises "database is locked": another connection holds a read
\* lock.  The transaction stays open with its row, and so does the write lock.
CommitFail(p) ==
    /\ p \in running
    /\ pc[p] = "commit"
    /\ CommitBlocked(p)
    /\ conn' = [conn EXCEPT ![p] = "pending"]
    /\ OnMarkError(p)
    /\ UNCHANGED <<running, schema, now, seen, txn, gateVars>>

\* lines 312-323: bands, is_mispriced, print the packet
Body(p) ==
    /\ p \in running
    /\ pc[p] = "body"
    /\ LET lid == listing_id(cur[p])
           bands == get_bands_for_listing(cur[p])
       IN  IF bands = None
           THEN /\ UNCHANGED count
                /\ Continue(p, feed[p])
           ELSE IF ~is_mispriced(cur[p], bands[1][1])
           THEN /\ count' = Bump(p, "gate", lid)
                /\ Continue(p, feed[p])
           ELSE /\ count' = [count EXCEPT ![<<p, "gate", lid>>] = @ + 1,
                                          ![<<p, "notify", lid>>] = @ + 1]
                /\ pc' = [pc EXCEPT ![p] = "email"]
                /\ UNCHANGED <<feed, cur, feedIdx>>
    /\ UNCHANGED <<running, now, storeVars, failed, gateVars>>

\* lines 326-327: send_email returns, or raises after the packet was printed
Email(p) ==
    /\ p \in running
    /\ pc[p] = "email"
    /\ \E email_ok \in BOOLEAN :
          IF email_ok
          THEN /\ Goto(p, BodyOrder("send_email"))
               /\ UNCHANGED failed
          ELSE Raise(p)
    /\ UNCHANGED <<running, now, storeVars, histVars, gateVars>>

\* line 332: time.sleep(POLL_SECONDS), then the next cycle
Sleep(p) ==
    /\ p \in running
    /\ pc[p] = "sleep"
    /\ now < MaxNow
    /\ now' = now + 1
    /\ pc' = [pc EXCEPT ![p] = "poll"]
    /\ feedIdx' = [feedIdx EXCEPT ![p] = 1]
    /\ failed' = [failed EXCEPT ![p] = {}]
    /\ UNCHANGED <<running, storeVars, feed, cur, histVars, gateVars>>

Next ==
    \E p \in Procs :
        \/ Poll(p)
        \/ PollFail(p)
        \/ EntryStep(p)
        \/ Skip(p)
        \/ EntryFail(p)
        \/ Insert(p)
        \/ InsertFail(p)
        \/ Commit(p)
        \/ CommitFail(p)
        \/ Body(p)
        \/ Email(p)
        \/ Sleep(p)

\* one poller alone never waits for a lock
NextSingle ==
    \E p \in Procs :
        \/ Poll(p)
        \/ PollFail(p)
        \/ EntryStep(p)
        \/ Skip(p)
        \/ EntryFail(p)
        \/ Insert(p)
        \/ Commit(p)
        \/ Body(p)
        \/ Email(p)
        \/ Sleep(p)

\* one call is_mispriced(listing, max_buy) on its own
ApplyGate ==
    /\ gate_out = <<>>
    /\ gate_out' = <<is_mispriced([NoListing EXCEPT !.price = gate_in.price], gate_in.max_buy)>>
    /\ UNCHANGED <<running, now, storeVars, pc, feedIdx, feed, cur, failed, histVars,
                   gate_in, call_in, call_out>>

NextGate == ApplyGate

\* ------------------------------------------------ instruction templates
Max2(a, b) == IF a >= b THEN a ELSE b

\* buy_instructions: the two amounts of the message; max_buy is given in
\* cents, int() truncates, max_buy * 0.75 is 75 * cents / 10000
buy_instructions(listing, max_buy_cents) ==
    [title |-> listing.title,
     link |-> listing.link,
     offer_open |-> Max2(1, (75 * max_buy_cents) \div 10000),
     offer_cap |-> max_buy_cents \div 100]

BuyInputs == [max_buy_cents : 0 .. MaxBuyCents]

InitBuy ==
    /\ InitWith({})
    /\ NoGateCall
    /\ call_in \in BuyInputs
    /\ call_out = <<>>

\* everything but the result of the stand-alone call stays as it is
CallFrame ==
    UNCHANGED <<running, now, storeVars, pc, feedIdx, feed, cur, failed, histVars,
                gate_in, gate_out, call_in>>

\* one call buy_instructions(listing, max_buy) on its own
ApplyBuy ==
    /\ call_out = <<>>
    /\ call_out' = <<buy_instructions(NoListing, call_in.max_buy_cents)>>
    /\ CallFrame

NextBuy == ApplyBuy

\* ------------------------------------------------ extract_listing alone
Texts == SeqsUpTo({W("stool"), N(0), N(7), N(50)}, MaxTextLen)

ExtractInputs == [title : Texts, summary : Texts]

InitExtract ==
    /\ InitWith({})
    /\ NoGateCall
    /\ call_in \in ExtractInputs
    /\ call_out = <<>>

\* one call extract_listing(feed_url, entry) on its own
ApplyExtract ==
    /\ call_out = <<>>
    /\ call_out' = <<extract_listing("f1", Entry(call_in.title, "L1", call_in.summary, None))>>
    /\ CallFrame

NextExtract == ApplyExtract

\* ------------------------------------------------ excitation scoring engine
\* Reals are fixed-point thousandths: 1.0 is Milli.
Milli == 1000
PriceCap == 250
RecencyCap == 250
WeightCap == 350
Offset == 350
Slope == 3
CooldownFactor == 500
SigStep == 500
SigSpan == 8

clamp(x, lo, hi) == IF x < lo THEN lo ELSE IF x > hi THEN hi ELSE x

Keys == {"source", "term"}

\* the derived keys of an item: at least its source key and a title term
deriveKeys(item) == Keys

RECURSIVE Halve(_, _)
Halve(value, days) == IF days = 0 THEN value ELSE Halve(value \div 2, days - 1)

\* value * (1 - DECAY)^max(days_elapsed, 0) with DECAY = 1/2; 0 if absent
getWeight(store, key, now_day) ==
    IF store.weights[key] = None THEN 0
    ELSE Halve(store.weights[key][1].value,
               Max2(now_day - store.weights[key][1].updated_day, 0))

\* a key is on cooldown iff now < until_ts; no record, no cooldown
onCooldown(store, key, now_day) ==
    /\ store.cooldowns[key] # None
    /\ now_day < store.cooldowns[key][1]

Ages == {-24, 0, 6, 12, 48}

\* exp(-age_hours / 12) in thousandths, on the ages taken
ExpNeg(age_hours) ==
    CASE age_hours = -24 -> 7389
      [] age_hours = 0 -> 1000
      [] age_hours = 6 -> 607
      [] age_hours = 12 -> 368
      [] age_hours = 48 -> 18

\* 1 / (1 + e^-x) in thousandths at x = k / 2
SigTable(k) ==
    CASE k = -8 -> 18 [] k = -7 -> 29 [] k = -6 -> 47 [] k = -5 -> 76
      [] k = -4 -> 119 [] k = -3 -> 182 [] k = -2 -> 269 [] k = -1 -> 378
      [] k = 0 -> 500 [] k = 1 -> 622 [] k = 2 -> 731 [] k = 3 -> 818
      [] k = 4 -> 881 [] k = 5 -> 924 [] k = 6 -> 953 [] k = 7 -> 971
      [] k = 8 -> 982

\* sigmoid of x thousandths: the table, linear between its points
sigmoid(x) ==
    LET k == x \div SigStep IN
    IF k < -SigSpan THEN SigTable(-SigSpan)
    ELSE IF k >= SigSpan THEN SigTable(SigSpan)
    ELSE SigTable(k) + ((SigTable(k + 1) - SigTable(k)) * (x - SigStep * k)) \div SigStep

price_contribution(price) ==
    IF price = None THEN 0 ELSE clamp(Milli \div (1 + price[1]), 0, PriceCap)

recency_contribution(age_hours) ==
    clamp((ExpNeg(age_hours) * RecencyCap) \div Milli, 0, RecencyCap)

RECURSIVE SumWeights(_, _, _)
SumWeights(store, keys, now_day) ==
    IF keys = {} THEN 0
    ELSE LET key == CHOOSE k \in keys : TRUE IN
         clamp(getWeight(store, key, now_day), -WeightCap, WeightCap)
             + SumWeights(store, keys \ {key}, now_day)

runningScore(item, store, now_day) ==
    price_contribution(item.price) + recency_contribution(item.age_hours)
        + SumWeights(store, deriveKeys(item), now_day)

RECURSIVE damping(_, _, _)
damping(store, keys, now_day) ==
    IF keys = {} THEN Milli
    ELSE LET key == CHOOSE k \in keys : TRUE
             rest == damping(store, keys \ {key}, now_day) IN
         IF onCooldown(store, key, now_day) THEN (rest * CooldownFactor) \div Milli ELSE rest

excitation_linear(item, store, now_day) ==
    (runningScore(item, store, now_day) * damping(store, deriveKeys(item), now_day)) \div Milli

excitation(item, store, now_day) ==
    clamp((sigmoid(Slope * (runningScore(item, store, now_day) - Offset))
              * damping(store, deriveKeys(item), now_day)) \div Milli,
          0, Milli)

WeightRecords ==
    {None} \cup {Some(r) : r \in [value : {-2000, 400, 2000}, updated_day : 0 .. MaxDay]}

CooldownRecords == {None} \cup {Some(d) : d \in 0 .. MaxDay}

Stores == [weights : [Keys -> WeightRecords], cooldowns : [Keys -> CooldownRecords]]

Items == [price : {None, Some(0), Some(3), Some(1000)}, age_hours : Ages]

ScoreInputs == [item : Items, store : Stores, now_day : 0 .. MaxDay]

InitScore ==
    /\ InitWith({})
    /\ NoGateCall
    /\ call_in \in ScoreInputs
    /\ call_out = <<>>

\* one call excitation(item) against a store at a time
ApplyScore ==
    /\ call_out = <<>>
    /\ call_out' = <<excitation(call_in.item, call_in.store, call_in.now_day)>>
    /\ CallFrame

NextScore == ApplyScore

Spec == Init /\ [][Next]_vars

SpecScore == InitScore /\ [][NextScore]_vars

SpecBuy == InitBuy /\ [][NextBuy]_vars

SpecExtract == InitExtract /\ [][NextExtract]_vars

SpecGate == InitGate /\ [][NextGate]_vars

SpecSingle == InitSingle /\ [][NextSingle]_vars


\* ================================================================ claims
Ids(rows) == {r.id : r \in rows}

RECURSIVE Total(_, _, _)
Total(S, kind, lid) ==
    IF S = {} THEN 0
    ELSE LET p == CHOOSE x \in S : TRUE
         IN  count[<<p, kind, lid>>] + Total(S \ {p}, kind, lid)

Admitters(lid) == {p \in Procs : count[<<p, "admit", lid>>] >= 1}

\* C1: of the pollers sharing the store, at most one admits a given identity
\* (gets past is_seen and mark_seen with it), under every interleaving.
C1_AtMostOneAdmits == \A lid \in Lids : Cardinality(Admitters(lid)) <= 1

\* C2: in a single process an identity is admitted by the first admit call and
\* by no later one: is_seen returns False (position "mark") only while the
\* process has not admitted the id, and returns True (position "dup") only
\* after it has admitted it, exactly once.
C2_AdmitOnceThenFalse ==
    \A p \in running :
        /\ pc[p] = "mark" => count[<<p, "admit", listing_id(cur[p])>>] = 0
        /\ pc[p] = "dup" => count[<<p, "admit", listing_id(cur[p])>>] = 1
        /\ \A lid \in Lids : count[<<p, "admit", lid>>] <= 1

\* a later call for an admitted id returns False after another id was admitted
C2_Witness ==
    /\ pc["p1"] = "dup"
    /\ count[<<"p1", "admit", listing_id(cur["p1"])>>] = 1
    /\ \E other \in Lids \ {listing_id(cur["p1"])} : count[<<"p1", "admit", other>>] = 1
    /\ now >= 1

\* C3: over all poll cycles no identity is admitted, evaluated against the
\* price gate, or notified more than once.
C3_ProcessedOnce ==
    \A lid \in Lids : \A kind \in Kinds : Total(Procs, kind, lid) <= 1

\* C4: once mark_seen has returned for an id (some process admitted it), no
\* is_seen call for that id, by any process, returns False.
C4_NoFalseNegative ==
    [][\A p \in Procs :
          (pc[p] = "entry" /\ pc'[p] = "mark") => Admitters(listing_id(cur'[p])) = {}]_vars

\* is_seen of one process returned True for an id that only the other one marked
C4_Witness ==
    \E p \in Procs : \E q \in Procs \ {p} :
        /\ pc[p] = "dup"
        /\ count[<<q, "admit", listing_id(cur[p])>>] >= 1
        /\ count[<<p, "admit", listing_id(cur[p])>>] = 0

PrimaryKey == \A r1 \in seen : \A r2 \in seen : r1.id = r2.id => r1 = r2

\* C5: a seen record is write-once: every committed row stays in the table
\* unchanged, also when mark_seen runs for an id that is already present, and
\* the id stays the row's key.
C5_WriteOnce == []PrimaryKey /\ [][seen \subseteq seen']_vars

\* both processes ran mark_seen for one id; the table holds one row for it
C5_Witness ==
    \E lid \in Lids :
        /\ Admitters(lid) = Procs
        /\ Cardinality({r \in seen : r.id = lid}) = 1

\* C6: the dedupe identity is (source, id): a listing is skipped as a duplicate
\* only if a listing of the same feed with the same id was recorded.
C6_IdentityIsSourceAndId ==
    \A p \in running :
        pc[p] = "dup" =>
            \E r \in seen \cup txn[p] :
                r.id = listing_id(cur[p]) /\ r.feed_url = cur[p].feed_url

\* C7: an exception while a feed is fetched or parsed leaves the seen records
\* and the notifications as they are and goes on with the next feed, so the
\* process sleeps only after the loop has reached the last feed.
C7_FeedFailureIsolated ==
    /\ [](\A p \in Procs : pc[p] = "sleep" => feedIdx[p] = Len(FEEDS))
    /\ [][\A p \in Procs :
             (pc[p] = "poll" /\ failed'[p] # failed[p]) =>
                 /\ seen' = seen
                 /\ count' = count
                 /\ feedIdx[p] < Len(FEEDS) =>
                        (pc'[p] = "poll" /\ feedIdx'[p] = feedIdx[p] + 1)]_vars

\* the first feed failed, the second one was polled and its listing admitted
C7_Witness ==
    \E p \in Procs :
        /\ pc[p] = "sleep"
        /\ failed[p] = {FEEDS[1]}
        /\ \E r \in seen :
              /\ r.feed_url = FEEDS[2]
              /\ r.first_seen = now
              /\ Admitters(r.id) = {p}

\* C8: a listing is admitted only in the step in which the commit of mark_seen
\* succeeds, and notified only after that; when is_seen or mark_seen raises,
\* the listing is skipped: nothing is admitted or notified.
C8_FailClosed ==
    /\ [](\A p \in Procs : \A lid \in Lids :
             /\ count[<<p, "notify", lid>>] <= count[<<p, "admit", lid>>]
             /\ count[<<p, "admit", lid>>] >= 1 => lid \in Ids(seen))
    /\ [][\A p \in Procs : \A lid \in Lids :
             /\ count'[<<p, "notify", lid>>] > count[<<p, "notify", lid>>] =>
                    (pc[p] = "body" /\ count[<<p, "admit", lid>>] >= 1)
             /\ count'[<<p, "admit", lid>>] > count[<<p, "admit", lid>>] =>
                    (pc[p] = "commit" /\ lid \in Ids(seen'))
             /\ failed'[p] # failed[p] /\ pc[p] \in {"entry", "mark", "commit"} =>
                    count' = count /\ pc'[p] \in {"poll", "sleep"}]_vars

\* mark_seen raised for a listing: its feed is logged as failed, its row is not
\* committed, and nobody admitted or notified it
C8_Witness ==
    \E p \in Procs : \E r \in txn[p] :
        /\ failed[p] # {}
        /\ pc[p] \notin {"mark", "commit"}
        /\ conn[p] = "pending"
        /\ r.id \notin Ids(seen)
        /\ Total(Procs, "admit", r.id) = 0
        /\ Total(Procs, "notify", r.id) = 0

\* C9: the only persisted change the loop makes is the insertion of the seen
\* row of the listing at mark_seen; is_seen changes nothing, and no other
\* table (weights, cooldowns) exists or is written.
C9_OnlySeenInserts ==
    [][/\ schema' = schema
       /\ schema = {"seen"}
       /\ \A p \in running :
              (pc[p] = "entry" /\ <<pc[p], feed[p]>>' # <<pc[p], feed[p]>>) =>
                  (seen' = seen /\ txn' = txn)
       /\ seen' # seen =>
             \E p \in running :
                 /\ pc[p] = "commit" /\ pc'[p] # "commit"
                 /\ \E t \in 0 .. now :
                        seen' = seen \cup {SeenRow(listing_id(cur[p]), t, cur[p])}]_vars

\* a row was inserted by one process and read by an is_seen of the other,
\* inside its open transaction
C9_Witness ==
    \E p \in Procs : \E q \in Procs \ {p} :
        /\ pc[p] = "dup"
        /\ conn[p] = "shared"
        /\ Admitters(listing_id(cur[p])) = {q}

\* C10 as stated: the gate is score >= threshold, with the price as the score
\* and max_buy as the threshold.
C10_GateIsAtLeastThreshold ==
    (gate_out # <<>> /\ gate_in.price # None) =>
        gate_out[1] = (gate_in.price[1] >= gate_in.max_buy)

\* C10 amended: the gate passes an unknown price and every price at or below
\* max_buy (equality included), and rejects every price strictly above it.
C10_GateIsAtMostMaxBuy ==
    gate_out # <<>> =>
        /\ gate_in.price = None => gate_out[1] = TRUE
        /\ (gate_in.price # None /\ gate_in.price[1] = gate_in.max_buy) => gate_out[1] = TRUE
        /\ (gate_in.price # None /\ gate_in.price[1] < gate_in.max_buy) => gate_out[1] = TRUE
        /\ (gate_in.price # None /\ gate_in.price[1] > gate_in.max_buy) => gate_out[1] = FALSE

\* the gate was evaluated at the band edge
C10_Witness ==
    /\ gate_out = <<TRUE>>
    /\ gate_in.price = Some(gate_in.max_buy)
    /\ gate_in.max_buy > 0


\* the filters of lines 299-303 stated on title, link and feed alone
PassesFilters(l) ==
    /\ ~(l.title = <<>> /\ l.link = "")
    /\ \/ KEYWORDS(l.feed_url) = <<>>
       \/ \E i \in DOMAIN KEYWORDS(l.feed_url) : Lower(KEYWORDS(l.feed_url)[i]) \in HayWords(l)

\* the feed has a category with price bands, and the price is unknown or at
\* most the category's max_buy
WithinBands(l) ==
    /\ FEED_CATEGORY(l.feed_url) # ""
    /\ PRICE_BANDS(FEED_CATEGORY(l.feed_url)) # None
    /\ \/ l.price = None
       \/ l.price[1] <= PRICE_BANDS(FEED_CATEGORY(l.feed_url))[1][1]

\* C12: a packet is printed or emailed for a listing only in the pass in which
\* is_seen returned False for it, and only if it passed the filters, its feed
\* has a category with bands and its price is unknown or at most max_buy; so a
\* known price above max_buy, or a feed without bands, is never notified.
C12_NotifyOnlyWithinBands ==
    [][\A p \in Procs : \A lid \in Lids :
          count'[<<p, "notify", lid>>] > count[<<p, "notify", lid>>] =>
              /\ pc[p] = "body"
              /\ listing_id(cur[p]) = lid
              /\ PassesFilters(cur[p])
              /\ WithinBands(cur[p])]_vars

\* one process notified a listing of unknown price and, for another id, gated
\* a listing priced above max_buy without notifying it
C12_Witness ==
    \E p \in Procs : \E r1 \in seen : \E r2 \in seen :
        /\ Admitters(r1.id) = {p} /\ Admitters(r2.id) = {p}
        /\ r1.price = None
        /\ count[<<p, "notify", r1.id>>] = 1
        /\ r2.price # None /\ r2.price[1] > BandMaxBuy
        /\ count[<<p, "gate", r2.id>>] = 1
        /\ count[<<p, "notify", r2.id>>] = 0

\* C13: the seen row of a listing is committed before its bands are looked up
\* and before its packet goes out: every gated or notified id is in table
\* seen, and no process notifies an id twice, also after send_email raised.
C13_SeenBeforePacket ==
    \A p \in Procs : \A lid \in Lids :
        /\ count[<<p, "gate", lid>>] >= 1 => lid \in Ids(seen)
        /\ count[<<p, "notify", lid>>] >= 1 => lid \in Ids(seen)
        /\ count[<<p, "notify", lid>>] <= 1

\* send_email raised for a listing of the first feed; the listing came again
\* from the second feed and is_seen returned True
C13_Witness ==
    \E p \in Procs : \E r \in seen :
        /\ pc[p] = "dup"
        /\ listing_id(cur[p]) = r.id
        /\ r.feed_url = FEEDS[1] /\ r.first_seen = now
        /\ Admitters(r.id) = {p}
        /\ count[<<p, "notify", r.id>>] = 1
        /\ FEEDS[1] \in failed[p]

AllPending == UNION {txn[p] : p \in Procs}

\* C14: an entry dropped by a filter (no title and no link, or no keyword of
\* its feed matches) changes neither the store nor what was admitted, so no
\* row of such an entry is ever written and its id stays unseen.
C14_FilteredLeavesStore ==
    /\ [](\A r \in seen \cup AllPending : PassesFilters(r))
    /\ [][\A p \in Procs :
             pc[p] = "entry" =>
                 /\ pc'[p] = "filtered" =>
                        /\ ~PassesFilters(cur'[p])
                        /\ seen' = seen /\ txn' = txn /\ count' = count
                 /\ pc'[p] \in {"dup", "mark"} => PassesFilters(cur'[p])]_vars

\* in a later cycle an entry of the keyword feed was dropped again; its id is
\* still not in the store
C14_Witness ==
    \E p \in Procs :
        /\ pc[p] = "filtered"
        /\ KEYWORDS(cur[p].feed_url) # <<>>
        /\ cur[p].link # ""
        /\ now >= 1
        /\ listing_id(cur[p]) \notin Ids(seen \cup AllPending)


\* C11: for every item and every store state (any weights, any cooldowns,
\* any price or none, any age) the excitation lies in [0, 1].
C11_ExcitationBounded ==
    call_out # <<>> => (0 <= call_out[1] /\ call_out[1] <= Milli)

\* a score was computed for an item without price, with a weight beyond the
\* clamp on one key and a cooldown on a key
C11_Witness ==
    /\ call_out # <<>>
    /\ call_in.item.price = None
    /\ \E key \in Keys : getWeight(call_in.store, key, call_in.now_day) < -WeightCap
    /\ \E key \in Keys : onCooldown(call_in.store, key, call_in.now_day)
    /\ call_out[1] > 0

\* C15: for every non-negative max_buy the opening offer of the BUY message
\* is at most the amount after "Do NOT exceed".
C15_OpenAtMostCap ==
    call_out # <<>> => call_out[1].offer_open <= call_out[1].offer_cap

\* C16: the price of the listing is the title's price whenever the title has
\* one (0 included), else the summary's price, else None.
C16_TitlePriceFirst ==
    call_out # <<>> =>
        call_out[1].price =
            (IF parse_price(call_in.title) # None THEN parse_price(call_in.title)
             ELSE parse_price(call_in.summary))

====
